---------------------------- MODULE Spec2Model ----------------------------
(***************************************************************************)
(* A model of the identity subsystem of the task manager:                  *)
(*   - the credential store of user_manager.py (the SQLite users table and *)
(*     register_user / change_password / verify_user / delete_user), each  *)
(*     call split at its SQL statements so that calls made from several    *)
(*     connections interleave as SQLite lets them;                         *)
(*   - the hand-written token codec of server.py (_generate_jwt and        *)
(*     _verify_jwt) with the clock it reads.                               *)
(* Strings are sequences of one-character strings, so concatenation,       *)
(* splitting and single-byte changes are computed, not assumed.            *)
(***************************************************************************)
EXTENDS Integers, Sequences, FiniteSets, TLC

VARIABLES
    users,      \* committed rows of the users table of auth.db
    nextId,     \* next AUTOINCREMENT id of the users table
    wlock,      \* the connection holding SQLite's write lock, or NoProc
    pc,         \* per connection: the statement its call executes next
    call,       \* per connection: arguments and locals of the running call
    ret,        \* per connection: what its last finished call returned
    calls,      \* number of calls started so far
    cur,        \* history: per username, the last committed successful write
    regOK,      \* history: per username, register_user calls that committed
    regDup,     \* history: per username, register_user calls that hit IntegrityError
    delOK,      \* history: per username, delete_user calls that removed a row
    now,        \* the clock read by time.time() and datetime.utcnow(), in seconds
    issued,     \* payloads of the tokens the server has issued
    res,        \* the call of _verify_jwt last made at this instant: token and outcome
    expiredSeen,\* history: tokens that _verify_jwt has rejected as expired
    resp,       \* per handler thread: the responses sent for its last request
    tasks,      \* committed rows of the tasks table of tasks.db
    milestones, \* committed rows of the milestones table of tasks.db
    req,        \* per handler thread: the request it is handling and where it is
    touched,    \* history: per handler thread, what its request did with tasks.db
    requests,   \* number of data requests received so far
    actingUser  \* history: the username the last handler step acted for

storeVars == <<users, nextId, wlock, pc, call, ret, calls, cur, regOK, regDup, delOK>>

jwtVars == <<now, issued, res, expiredSeen>>

httpVars == <<resp>>

apiVars == <<tasks, milestones, req, touched, requests, actingUser>>

vars == <<storeVars, jwtVars, httpVars, apiVars>>

-----------------------------------------------------------------------------
(* Bounds and input sets                                                   *)

\* total number of credential-store calls in one behaviour
MaxCalls == 4

\* connections (user_manager processes) that may run calls at the same time
Procs == { 1, 2 }
NoProc == 0

\* handler threads of the ThreadingTCPServer that may serve requests at the
\* same time
Workers == { 1, 2 }

Usernames == { <<"a">>, <<"b">> }
Passwords == { <<"p">>, <<"p", "s">> }
\* os.urandom(16).hex(): every salt has the same length
Salts == { <<"s">>, <<"t">> }

PEPPER == <<"P">>

NoStr == <<>>

-----------------------------------------------------------------------------
(* Password hasher                                                         *)

\* sha256((password + salt + PEPPER)).hexdigest(); SHA-256 is taken to be
\* collision free, so a digest is identified by the string that was hashed.
HashPassword(password, salt) ==
    [sha256 |-> password \o salt \o PEPPER]

-----------------------------------------------------------------------------
(* The users table                                                         *)

RowsOf(tbl, username) == { r \in tbl : r.username = username }

\* cursor.fetchone() of a SELECT ... WHERE username = ?: the first row in
\* rowid order, or none.
FetchOne(tbl, username) ==
    LET rs == RowsOf(tbl, username)
    IN  IF rs = {} THEN {}
        ELSE { CHOOSE r \in rs : \A o \in rs : r.id <= o.id }

\* A table without the UNIQUE constraint.
UniqueViolationNever(tbl, username) == FALSE

\* username TEXT UNIQUE NOT NULL
UniqueViolation(tbl, username) == RowsOf(tbl, username) # {}

\* A verifier that tells an unknown user from a wrong password.
VerifyUserTellsUnknown(tbl, username, password) ==
    LET found == FetchOne(tbl, username)
    IN  IF found = {} THEN [value |-> FALSE, kind |-> "not_found"]
        ELSE IF \E r \in found : HashPassword(password, r.salt) = r.password_hash
             THEN [value |-> TRUE, kind |-> "verified"]
             ELSE [value |-> FALSE, kind |-> "failed"]

\* A verifier that passes the salt and the password to the hasher in the
\* wrong order.
VerifyUserSwapped(tbl, username, password) ==
    LET found == FetchOne(tbl, username)
    IN  IF found # {}
           /\ \E r \in found : HashPassword(r.salt, password) = r.password_hash
        THEN [value |-> TRUE, kind |-> "verified"]
        ELSE [value |-> FALSE, kind |-> "failed"]

\* verify_user: what the call returns and the exit it takes.
VerifyUser(tbl, username, password) ==
    LET found == FetchOne(tbl, username)
    IN  IF found # {}
           /\ \E r \in found : HashPassword(password, r.salt) = r.password_hash
        THEN [value |-> TRUE, kind |-> "verified"]
        ELSE [value |-> FALSE, kind |-> "failed"]


-----------------------------------------------------------------------------
(* Token codec: strings                                                    *)

SECRET_KEY == <<"K">>
\* a key that is not the server's
OtherKey == <<"E">>

\* 'exp': int(time.time() + 3600)
TOKEN_TTL == 3600

DigitChars == <<"0", "1", "2", "3", "4", "5", "6", "7", "8", "9">>

\* str(n) of a natural number
RECURSIVE NatToDigits(_)
NatToDigits(n) ==
    IF n < 10 THEN << DigitChars[n + 1] >>
    ELSE NatToDigits(n \div 10) \o << DigitChars[(n % 10) + 1] >>

IsDigit(c) == \E i \in 1 .. 10 : DigitChars[i] = c

DigitValue(c) == (CHOOSE i \in 1 .. 10 : DigitChars[i] = c) - 1

\* a JSON number: digits, no leading zero
IsNumber(s) ==
    /\ Len(s) >= 1
    /\ \A i \in 1 .. Len(s) : IsDigit(s[i])
    /\ (Len(s) > 1 => s[1] # "0")

RECURSIVE DigitsToNat(_)
DigitsToNat(s) ==
    IF Len(s) = 0 THEN 0
    ELSE 10 * DigitsToNat(SubSeq(s, 1, Len(s) - 1)) + DigitValue(s[Len(s)])

\* token.split('.')
RECURSIVE Split(_, _)
Split(s, sep) ==
    IF \A i \in 1 .. Len(s) : s[i] # sep THEN << s >>
    ELSE LET k == CHOOSE i \in 1 .. Len(s) :
                      s[i] = sep /\ \A j \in 1 .. (i - 1) : s[j] # sep
         IN  << SubSeq(s, 1, k - 1) >> \o Split(SubSeq(s, k + 1, Len(s)), sep)

\* '.'.join(parts)
RECURSIVE Join(_)
Join(parts) ==
    IF Len(parts) = 0 THEN <<>>
    ELSE IF Len(parts) = 1 THEN parts[1]
    ELSE parts[1] \o << "." >> \o Join(Tail(parts))

-----------------------------------------------------------------------------
(* Token codec: segments                                                   *)

NoPayload == [username |-> NoStr, has_exp |-> FALSE, exp |-> 0]

\* _base64url_encode(json.dumps(header)), a fixed string
EncodedHeader == << "h" >>

\* An encoder that leaves the exp field out.
EncodePayloadDropsExp(payload) == payload.username

\* _base64url_encode(json.dumps(payload_data)): the username, and the exp,
\* when the payload has one, written in decimal after a separator.
EncodePayload(payload) ==
    IF payload.has_exp
    THEN payload.username \o << "," >> \o NatToDigits(payload.exp)
    ELSE payload.username

\* json.loads(_base64url_decode(encoded_payload)): the payload, or the
\* exception a segment that is no encoded payload raises.
DecodePayload(seg) ==
    LET fields == Split(seg, ",")
    IN  IF Len(seg) = 0 THEN [ok |-> FALSE, payload |-> NoPayload]
        ELSE IF Len(fields) = 1
             THEN [ok |-> TRUE,
                   payload |-> [username |-> seg, has_exp |-> FALSE, exp |-> 0]]
        ELSE IF Len(fields) = 2 /\ IsNumber(fields[2])
             THEN [ok |-> TRUE,
                   payload |-> [username |-> fields[1], has_exp |-> TRUE,
                                exp |-> DigitsToNat(fields[2])]]
        ELSE [ok |-> FALSE, payload |-> NoPayload]

\* A signature that covers the header segment only.
SignHeaderOnly(secret, signing_input) ==
    secret \o Split(signing_input, ".")[1]

\* _base64url_encode(hmac.new(secret, signing_input, sha256).digest()).
\* HMAC-SHA256 is taken to be collision free: the signature determines key
\* and input.  A signature holds no '.', which base64url never produces; the
\* character that stands for it is in no header or payload segment, so no
\* other input maps to the same signature.
Sign(secret, signing_input) ==
    secret \o [i \in 1 .. Len(signing_input) |->
                  IF signing_input[i] = "." THEN "~" ELSE signing_input[i]]

\* _generate_jwt
GenerateJwt(payload, secret) ==
    LET encoded_header == EncodedHeader
        encoded_payload == EncodePayload(payload)
        signing_input == encoded_header \o << "." >> \o encoded_payload
    IN  signing_input \o << "." >> \o Sign(secret, signing_input)

-----------------------------------------------------------------------------
(* Token verification                                                      *)

Outcome(ok, payload, path, steps) ==
    [ok |-> ok, payload |-> payload, path |-> path, steps |-> steps]

\* A verifier that reads exp before it checks the signature.
VerifyJwtExpFirst(token, secret, t) ==
    LET parts == Split(token, ".")
    IN  IF Len(parts) # 3
        THEN Outcome(FALSE, NoPayload, "format", << "split" >>)
        ELSE LET dec == DecodePayload(parts[2])
                 expected == Sign(secret, parts[1] \o << "." >> \o parts[2])
             IN  IF ~ dec.ok
                 THEN Outcome(FALSE, NoPayload, "error", << "split", "decode" >>)
                 ELSE IF dec.payload.has_exp /\ dec.payload.exp < t
                 THEN Outcome(FALSE, NoPayload, "expired",
                              << "split", "decode", "exp" >>)
                 ELSE IF parts[3] # expected
                 THEN Outcome(FALSE, NoPayload, "signature",
                              << "split", "decode", "exp", "signature" >>)
                 ELSE Outcome(TRUE, dec.payload, "ok",
                              << "split", "decode", "exp", "signature" >>)

\* _verify_jwt at the instant t: whether a payload is returned (not None),
\* the payload, the exit taken and the steps run before it:
\*   "format"     return None  # Invalid JWT format
\*   "signature"  return None  # Signature mismatch
\*   "expired"    return None  # Token expired
\*   "error"      the except branch
VerifyJwt(token, secret, t) ==
    LET parts == Split(token, ".")
    IN  IF Len(parts) # 3
        THEN Outcome(FALSE, NoPayload, "format", << "split" >>)
        ELSE LET expected == Sign(secret, parts[1] \o << "." >> \o parts[2])
                 dec == DecodePayload(parts[2])
             IN  IF parts[3] # expected
                 THEN Outcome(FALSE, NoPayload, "signature",
                              << "split", "signature" >>)
                 ELSE IF ~ dec.ok
                 THEN Outcome(FALSE, NoPayload, "error",
                              << "split", "signature", "decode" >>)
                 ELSE IF dec.payload.has_exp /\ dec.payload.exp < t
                 THEN Outcome(FALSE, NoPayload, "expired",
                              << "split", "signature", "decode", "exp" >>)
                 ELSE Outcome(TRUE, dec.payload, "ok",
                              << "split", "signature", "decode", "exp" >>)

-----------------------------------------------------------------------------
(* Issuing and presenting tokens                                           *)

\* tokens the server issues in one behaviour
MaxIssued == 1

\* Instants the clock is read at: the issue of a token, the second before
\* it expires, the second it expires, the second after.
Instants == { 0, TOKEN_TTL - 1, TOKEN_TTL, TOKEN_TTL + 1 }

NoRes ==
    [token |-> NoStr, at |-> 0, ok |-> FALSE, payload |-> NoPayload,
     path |-> "none", steps |-> <<>>]

IssuedTokens == { GenerateJwt(p, SECRET_KEY) : p \in issued }

\* positions of a token that lie in a segment, not on a separator
SegmentBytes(token) == { i \in 1 .. Len(token) : token[i] # "." }

\* values a changed byte takes: another letter, another digit, the two
\* separators, a character no segment holds
FlipChars == { "b", "x", "0", "7", ".", "," }

\* the tokens that differ from t in one byte of one segment
TamperedOf(t) ==
    UNION { { [t EXCEPT ![i] = c] : c \in FlipChars \ { t[i] } } :
              i \in SegmentBytes(t) }

\* tokens signed with a key that is not the server's
ForgedPayloads ==
    { [username |-> u, has_exp |-> TRUE, exp |-> e] :
        u \in Usernames, e \in { 1, 3 * TOKEN_TTL } }
    \cup { [username |-> u, has_exp |-> FALSE, exp |-> 0] : u \in Usernames }

Forged == { GenerateJwt(p, OtherKey) : p \in ForgedPayloads }

\* Other strings _verify_jwt can be called with: three segments, some of
\* them empty or no encoded payload, the third the signature of the first
\* two or not; and strings of one, two and four segments.
HeaderSegs == { <<>>, EncodedHeader }

PayloadSegs ==
    { <<>>, << "a", "," >>, << "a" >> } \cup { EncodePayload(p) : p \in issued }

SignatureSegs(h, pl) ==
    { <<>>, << "x" >>, Sign(SECRET_KEY, h \o << "." >> \o pl) }

Crafted ==
    UNION { { Join(<< h, pl, sg >>) : sg \in SignatureSegs(h, pl) } :
            h \in HeaderSegs, pl \in PayloadSegs }
    \cup { <<>>, EncodedHeader, Join(<< EncodedHeader, << "a" >> >>) }
    \cup { t \o << ".", "x" >> : t \in IssuedTokens }

Presented ==
    IssuedTokens \cup UNION { TamperedOf(t) : t \in IssuedTokens }
                 \cup Forged \cup Crafted

\* do_POST /login after verify_user succeeded:
\* {'username': username, 'exp': int(time.time() + 3600)}, _generate_jwt
IssueToken(username) ==
    /\ Cardinality(issued) < MaxIssued
    /\ issued' = issued \cup
                   { [username |-> username, has_exp |-> TRUE,
                      exp |-> now + TOKEN_TTL] }
    /\ res' = NoRes
    /\ UNCHANGED <<now, expiredSeen>>

\* time passes
AdvanceClock ==
    /\ \E t \in Instants : t > now /\ now' = t
    /\ res' = NoRes
    /\ UNCHANGED <<issued, expiredSeen>>

\* A verifier that also asks the credential store whether the user named by
\* the token still has a record.
VerifyTokenChecksUser(token) ==
    /\ LET o == VerifyJwt(token, SECRET_KEY, now)
           known == o.ok /\ RowsOf(users, o.payload.username) # {}
       IN  /\ res' = [token |-> token, at |-> now, ok |-> known,
                      payload |-> IF known THEN o.payload ELSE NoPayload,
                      path |-> IF o.ok /\ ~ known THEN "revoked" ELSE o.path,
                      steps |-> o.steps]
           /\ expiredSeen' = IF o.path = "expired"
                             THEN expiredSeen \cup { token }
                             ELSE expiredSeen
    /\ UNCHANGED <<now, issued>>

\* payload = _verify_jwt(token, SECRET_KEY)
VerifyToken(token) ==
    /\ LET o == VerifyJwt(token, SECRET_KEY, now)
       IN  /\ res' = [token |-> token, at |-> now, ok |-> o.ok,
                      payload |-> o.payload, path |-> o.path, steps |-> o.steps]
           /\ expiredSeen' = IF o.path = "expired"
                             THEN expiredSeen \cup { token }
                             ELSE expiredSeen
    /\ UNCHANGED <<now, issued>>

-----------------------------------------------------------------------------
(* Records of the model                                                    *)

NoHash == [sha256 |-> NoStr]

NoCall ==
    [op |-> "none", username |-> NoStr, password |-> NoStr,
     old_password |-> NoStr, salt |-> NoStr, hash |-> NoHash, rowcount |-> 0]

NoRet == [op |-> "none", username |-> NoStr, value |-> FALSE, kind |-> "none"]

NoCred == [via |-> "none", password |-> NoStr, old_password |-> NoStr]

Returned(op, username, value, kind) ==
    [op |-> op, username |-> username, value |-> value, kind |-> kind]

-----------------------------------------------------------------------------
(* register_user                                                           *)

\* cursor.execute("INSERT INTO users ..."): the statement takes the write
\* lock (it waits while another connection holds it) and checks UNIQUE.  On
\* IntegrityError the call returns False and conn.close() drops the lock.
RegisterInsert(p, username, password, salt) ==
    /\ pc[p] = "idle"
    /\ calls < MaxCalls
    /\ wlock = NoProc
    /\ calls' = calls + 1
    /\ IF UniqueViolation(users, username)
       THEN /\ ret' = [ret EXCEPT ![p] =
                         Returned("register_user", username, FALSE, "IntegrityError")]
            /\ regDup' = [regDup EXCEPT ![username] = @ + 1]
            /\ UNCHANGED <<pc, call, wlock>>
       ELSE /\ pc' = [pc EXCEPT ![p] = "reg_commit"]
            /\ call' = [call EXCEPT ![p] =
                          [NoCall EXCEPT !.op = "register_user",
                                         !.username = username,
                                         !.password = password,
                                         !.salt = salt,
                                         !.hash = HashPassword(password, salt)]]
            /\ wlock' = p
            /\ UNCHANGED <<ret, regDup>>
    /\ UNCHANGED <<users, nextId, cur, regOK, delOK>>

\* conn.commit(); return True
RegisterCommit(p) ==
    /\ pc[p] = "reg_commit"
    /\ users' = users \cup { [id |-> nextId,
                              username |-> call[p].username,
                              password_hash |-> call[p].hash,
                              salt |-> call[p].salt] }
    /\ nextId' = nextId + 1
    /\ wlock' = NoProc
    /\ pc' = [pc EXCEPT ![p] = "idle"]
    /\ ret' = [ret EXCEPT ![p] =
                 Returned("register_user", call[p].username, TRUE, "ok")]
    /\ cur' = [cur EXCEPT ![call[p].username] =
                 [via |-> "register", password |-> call[p].password,
                  old_password |-> NoStr]]
    /\ regOK' = [regOK EXCEPT ![call[p].username] = @ + 1]
    /\ call' = [call EXCEPT ![p] = NoCall]
    /\ UNCHANGED <<calls, regDup, delOK>>

-----------------------------------------------------------------------------
(* change_password                                                         *)

\* A check that lets any old password through.
ChangePasswordCheckSkipsOld(tbl, username, old_password) ==
    IF FetchOne(tbl, username) = {} THEN "NotFound" ELSE "ok"

\* The SELECT and the two early returns of change_password.
ChangePasswordCheck(tbl, username, old_password) ==
    LET found == FetchOne(tbl, username)
    IN  IF found = {} THEN "NotFound"
        ELSE IF \E r \in found :
                   HashPassword(old_password, r.salt) # r.password_hash
             THEN "InvalidCredentials"
             ELSE "ok"

\* A digest computed from the old password instead of the new one.
NewPasswordHashOfOld(old_password, new_password, salt) ==
    HashPassword(old_password, salt)

\* new_hashed_password = _hash_password(new_password, salt): the salt read
\* by the SELECT is kept.
NewPasswordHash(old_password, new_password, salt) ==
    HashPassword(new_password, salt)

ChangeSelect(p, username, old_password, new_password) ==
    /\ pc[p] = "idle"
    /\ calls < MaxCalls
    /\ calls' = calls + 1
    /\ LET outcome == ChangePasswordCheck(users, username, old_password)
       IN  IF outcome = "ok"
           THEN /\ pc' = [pc EXCEPT ![p] = "chg_update"]
                /\ call' = [call EXCEPT ![p] =
                     LET row == CHOOSE r \in FetchOne(users, username) : TRUE
                     IN  [NoCall EXCEPT !.op = "change_password",
                                        !.username = username,
                                        !.password = new_password,
                                        !.old_password = old_password,
                                        !.salt = row.salt,
                                        !.hash = NewPasswordHash(old_password,
                                                     new_password, row.salt)]]
                /\ UNCHANGED ret
           ELSE /\ ret' = [ret EXCEPT ![p] =
                             Returned("change_password", username, FALSE, outcome)]
                /\ UNCHANGED <<pc, call>>
    /\ UNCHANGED <<users, nextId, wlock, cur, regOK, regDup, delOK>>

\* cursor.execute("UPDATE users SET password_hash = ? WHERE username = ?")
ChangeUpdate(p) ==
    /\ pc[p] = "chg_update"
    /\ wlock = NoProc
    /\ wlock' = p
    /\ pc' = [pc EXCEPT ![p] = "chg_commit"]
    /\ call' = [call EXCEPT ![p].rowcount =
                  Cardinality(RowsOf(users, call[p].username))]
    /\ UNCHANGED <<users, nextId, ret, calls, cur, regOK, regDup, delOK>>

\* conn.commit(); return True
ChangeCommit(p) ==
    /\ pc[p] = "chg_commit"
    /\ users' = { IF r.username = call[p].username
                  THEN [r EXCEPT !.password_hash = call[p].hash]
                  ELSE r : r \in users }
    /\ wlock' = NoProc
    /\ pc' = [pc EXCEPT ![p] = "idle"]
    /\ ret' = [ret EXCEPT ![p] =
                 Returned("change_password", call[p].username, TRUE, "ok")]
    /\ cur' = [cur EXCEPT ![call[p].username] =
                 [via |-> "change", password |-> call[p].password,
                  old_password |-> call[p].old_password]]
    /\ call' = [call EXCEPT ![p] = NoCall]
    /\ UNCHANGED <<nextId, calls, regOK, regDup, delOK>>

-----------------------------------------------------------------------------
(* delete_user                                                             *)

\* cursor.execute("DELETE FROM users WHERE username = ?")
DeleteExecute(p, username) ==
    /\ pc[p] = "idle"
    /\ calls < MaxCalls
    /\ wlock = NoProc
    /\ calls' = calls + 1
    /\ wlock' = p
    /\ pc' = [pc EXCEPT ![p] = "del_commit"]
    /\ call' = [call EXCEPT ![p] =
                  [NoCall EXCEPT !.op = "delete_user",
                                 !.username = username,
                                 !.rowcount = Cardinality(RowsOf(users, username))]]
    /\ UNCHANGED <<users, nextId, ret, cur, regOK, regDup, delOK>>

\* A delete_user that reports True whatever the DELETE found.
DeleteCommitAlwaysTrue(p) ==
    /\ pc[p] = "del_commit"
    /\ users' = users \ RowsOf(users, call[p].username)
    /\ wlock' = NoProc
    /\ pc' = [pc EXCEPT ![p] = "idle"]
    /\ ret' = [ret EXCEPT ![p] =
                 Returned("delete_user", call[p].username, TRUE, "ok")]
    /\ cur' = [cur EXCEPT ![call[p].username] = NoCred]
    /\ delOK' = [delOK EXCEPT ![call[p].username] = @ + 1]
    /\ call' = [call EXCEPT ![p] = NoCall]
    /\ UNCHANGED <<nextId, calls, regOK, regDup>>

\* conn.commit(); return cursor.rowcount > 0
DeleteCommit(p) ==
    /\ pc[p] = "del_commit"
    /\ users' = users \ RowsOf(users, call[p].username)
    /\ wlock' = NoProc
    /\ pc' = [pc EXCEPT ![p] = "idle"]
    /\ IF call[p].rowcount > 0
       THEN /\ ret' = [ret EXCEPT ![p] =
                         Returned("delete_user", call[p].username, TRUE, "ok")]
            /\ cur' = [cur EXCEPT ![call[p].username] = NoCred]
            /\ delOK' = [delOK EXCEPT ![call[p].username] = @ + 1]
       ELSE /\ ret' = [ret EXCEPT ![p] =
                         Returned("delete_user", call[p].username, FALSE, "NotFound")]
            /\ UNCHANGED <<cur, delOK>>
    /\ call' = [call EXCEPT ![p] = NoCall]
    /\ UNCHANGED <<nextId, calls, regOK, regDup>>

-----------------------------------------------------------------------------
(* verify_user                                                             *)

\* One SELECT of the committed table, then the comparison and the return.
VerifyCall(p, username, password) ==
    /\ pc[p] = "idle"
    /\ calls < MaxCalls
    /\ calls' = calls + 1
    /\ LET r == VerifyUser(users, username, password)
       IN  ret' = [ret EXCEPT ![p] =
                     Returned("verify_user", username, r.value, r.kind)]
    /\ UNCHANGED <<users, nextId, wlock, pc, call, cur, regOK, regDup, delOK>>

-----------------------------------------------------------------------------
(* Login                                                                   *)

\* what a request body may hold for "password": the passwords, and ''
SubmittedPasswords == Passwords \cup { NoStr }

SubmittedUsernames == Usernames \cup { NoStr }

NoBody == [token |-> NoStr, username |-> NoStr, rows |-> {}]

\* _send_response(status_code, "application/json", body)
Response(status, body) == [status |-> status, body |-> body]

\* A login that issues the token without asking verify_user.
LoginOutcomeSkipsVerify(tbl, username, password, t) ==
    IF username = NoStr \/ password = NoStr
    THEN Response(400, NoBody)
    ELSE Response(200,
             [NoBody EXCEPT
                 !.token = GenerateJwt([username |-> username, has_exp |-> TRUE,
                                        exp |-> t + TOKEN_TTL], SECRET_KEY),
                 !.username = username])

\* do_POST /login with a well-formed JSON body, at the instant t: the
\* response it sends.
LoginOutcome(tbl, username, password, t) ==
    IF username = NoStr \/ password = NoStr
    THEN Response(400, NoBody)
    ELSE IF VerifyUser(tbl, username, password).value
    THEN Response(200,
             [NoBody EXCEPT
                 !.token = GenerateJwt([username |-> username, has_exp |-> TRUE,
                                        exp |-> t + TOKEN_TTL], SECRET_KEY),
                 !.username = username])
    ELSE Response(401, NoBody)

\* do_POST /login: one SELECT of the committed users table inside
\* verify_user, then the token and the response.
DoPostLogin(w, username, password) ==
    /\ calls < MaxCalls
    /\ calls' = calls + 1
    /\ LET o == LoginOutcome(users, username, password, now)
       IN  /\ o.status = 200 => Cardinality(issued) < MaxIssued
           /\ resp' = [resp EXCEPT ![w] = << o >>]
           /\ issued' = IF o.status = 200
                        THEN issued \cup { [username |-> username, has_exp |-> TRUE,
                                            exp |-> now + TOKEN_TTL] }
                        ELSE issued
    /\ res' = NoRes
    /\ UNCHANGED <<users, nextId, wlock, pc, call, ret, cur, regOK, regDup, delOK>>
    /\ UNCHANGED <<now, expiredSeen, apiVars>>

-----------------------------------------------------------------------------
(* The tasks store and the requests on it                                  *)

\* data requests received in one behaviour
MaxRequests == 4

\* path segments a request names a task and a milestone with; one of them
\* is refused by _is_safe_path
TaskIds == { << "t" >> }

MilestoneIds == { << "m" >>, << "n" >> }

UnsafeId == << ".", "x" >>

Titles == { << "x" >>, << "y" >> }

\* data.get('parentId'): null, or the id of a milestone
ParentIds == MilestoneIds \cup { NoStr }

\* _is_safe_path
IsSafePath(path_segment) ==
    /\ Len(path_segment) > 0
    /\ ~ \E i \in 1 .. (Len(path_segment) - 1) :
             path_segment[i] = "." /\ path_segment[i + 1] = "."
    /\ ~ \E i \in 1 .. Len(path_segment) : path_segment[i] \in { "/", "\\" }
    /\ path_segment[1] # "."

\* INSERT OR REPLACE INTO t (...): id is the PRIMARY KEY of both tables, so a
\* row with the same id is replaced, whatever its other columns hold.
InsertOrReplace(tbl, row) == { r \in tbl : r.id # row.id } \cup { row }

\* SELECT id FROM tasks WHERE id = ? AND creator = ?
OwnedTask(tks, task_id, username) ==
    { r \in tks : r.id = task_id /\ r.creator = username }

\* SELECT id FROM milestones WHERE parentId = ?
Children(mls, milestone_id) == { r \in mls : r.parentId = milestone_id }

\* The milestones table after DELETE FROM tasks WHERE id = ?.  The table
\* declares FOREIGN KEY (taskId) REFERENCES tasks(id) ON DELETE CASCADE, but
\* SQLite enforces foreign keys only on a connection that has run
\* PRAGMA foreign_keys = ON, and no connection of server.py runs it.
MilestonesAfterTaskDelete(mls, task_id) == mls

-----------------------------------------------------------------------------
(* Authentication of a request                                             *)

BearerPrefix == << "B", "e", "a", "r", "e", "r", " " >>

\* self.headers.get('Authorization'): None, or the value of the header
NoHeader == [present |-> FALSE, value |-> NoStr]

Header(v) == [present |-> TRUE, value |-> v]

\* auth_header.startswith(prefix)
StartsWith(v, prefix) ==
    Len(prefix) <= Len(v) /\ \A i \in 1 .. Len(prefix) : v[i] = prefix[i]

\* the tokens of the logins made at instant 0
SessionTokens ==
    { GenerateJwt([username |-> u, has_exp |-> TRUE, exp |-> TOKEN_TTL],
                  SECRET_KEY) : u \in Usernames }

\* a token for an existing username signed with a key that is not the
\* server's
ForeignToken ==
    GenerateJwt([username |-> CHOOSE u \in Usernames : TRUE, has_exp |-> TRUE,
                 exp |-> 3 * TOKEN_TTL], OtherKey)

AuthHeaders ==
    { NoHeader, Header(<< "B", "a", "s", "i", "c", " ", "x" >>),
      Header(BearerPrefix \o << "x" >>), Header(BearerPrefix \o ForeignToken) }
    \cup { Header(BearerPrefix \o t) : t \in SessionTokens }

\* The case of the Authorization header at the instant t.
AuthKind(header, t) ==
    IF ~ header.present \/ header.value = NoStr THEN "missing"
    ELSE IF ~ StartsWith(header.value, BearerPrefix) THEN "not_bearer"
    ELSE IF ~ VerifyJwt(Split(header.value, " ")[2], SECRET_KEY, t).ok
    THEN "rejected"
    ELSE "ok"

\* An authentication that takes the username from the payload of a token
\* whose verification failed.
GetAuthenticatedUsernameTrustsPayload(header, t) ==
    IF ~ header.present \/ header.value = NoStr
          \/ ~ StartsWith(header.value, BearerPrefix)
    THEN [username |-> NoStr, sent |-> << Response(401, NoBody) >>]
    ELSE LET parts == Split(Split(header.value, " ")[2], ".")
         IN  [username |-> IF Len(parts) = 3
                           THEN DecodePayload(parts[2]).payload.username
                           ELSE NoStr,
              sent |-> <<>>]

\* _get_authenticated_username at the instant t: the username it returns
\* (none: None) and the responses it has sent.
GetAuthenticatedUsername(header, t) ==
    IF ~ header.present \/ header.value = NoStr
          \/ ~ StartsWith(header.value, BearerPrefix)
    THEN [username |-> NoStr, sent |-> << Response(401, NoBody) >>]
    ELSE LET token == Split(header.value, " ")[2]
             payload == VerifyJwt(token, SECRET_KEY, t)
         IN  IF payload.ok
             THEN [username |-> payload.payload.username, sent |-> <<>>]
             ELSE [username |-> NoStr, sent |-> <<>>]

\* the headers that carry a token of a login
SessionHeaders == { Header(BearerPrefix \o t) : t \in SessionTokens }

OtherHeaders == AuthHeaders \ SessionHeaders

\* _get_authenticated_username for each header and instant of the model
Authentication ==
    [header \in AuthHeaders, t \in Instants |->
        [returned |-> GetAuthenticatedUsername(header, t),
         kind |-> AuthKind(header, t)]]

-----------------------------------------------------------------------------
(* Request handlers                                                        *)

IdleReq ==
    [pc |-> "idle", username |-> NoStr, task_id |-> NoStr,
     milestone_id |-> NoStr, parentId |-> NoStr, auth |-> "none"]

PathTaskIds == TaskIds \cup { UnsafeId }

PathMilestoneIds == MilestoneIds \cup { UnsafeId }

\* a handler thread takes the next request of its connection
Receive(w) ==
    /\ req[w].pc \in { "idle", "done" }
    /\ requests < MaxRequests
    /\ requests' = requests + 1

\* the handler returns because _get_authenticated_username returned None
Return(w, auth, sent) ==
    /\ resp' = [resp EXCEPT ![w] = sent]
    /\ req' = [req EXCEPT ![w] = [IdleReq EXCEPT !.pc = "done", !.auth = auth]]
    /\ touched' = [touched EXCEPT ![w] = {}]
    /\ actingUser' = NoStr
    /\ UNCHANGED <<tasks, milestones>>

\* the handler sends its response and returns; conn.close()
Reply(w, username, auth, status, body, ops) ==
    /\ resp' = [resp EXCEPT ![w] =
                  IF req[w].pc \in { "idle", "done" }
                  THEN << Response(status, body) >>
                  ELSE resp[w] \o << Response(status, body) >>]
    /\ req' = [req EXCEPT ![w] = [IdleReq EXCEPT !.pc = "done", !.auth = auth]]
    /\ touched' = [touched EXCEPT ![w] = ops]
    /\ actingUser' = username

\* the handler goes on to its next SQL statement
Continue(w, username, auth, next_pc, task_id, milestone_id, parentId, ops) ==
    /\ resp' = [resp EXCEPT ![w] = <<>>]
    /\ req' = [req EXCEPT ![w] =
                 [pc |-> next_pc, username |-> username, task_id |-> task_id,
                  milestone_id |-> milestone_id, parentId |-> parentId,
                  auth |-> auth]]
    /\ touched' = [touched EXCEPT ![w] = ops]
    /\ actingUser' = username
    /\ UNCHANGED <<tasks, milestones>>

\* do_PUT with a well-formed JSON body, up to and including its first SQL
\* statement.  INSERT OR REPLACE and the commit that follows it are one
\* step: the row is visible to other connections only at the commit.
DoPut(w, header, endpoint, task_id, milestone_id, title, parentId) ==
    /\ Receive(w)
    /\ LET a == Authentication[header, now].returned
           username == a.username
           auth == Authentication[header, now].kind
       IN  IF username = NoStr
           THEN Return(w, auth, a.sent)
           ELSE IF endpoint = "save-task"
           THEN IF ~ IsSafePath(task_id)
                THEN /\ Reply(w, username, auth, 400, NoBody, { "connect" })
                     /\ UNCHANGED <<tasks, milestones>>
                ELSE /\ tasks' = InsertOrReplace(tasks,
                                    [id |-> task_id, creator |-> username,
                                     title |-> title])
                     /\ UNCHANGED milestones
                     /\ Reply(w, username, auth, 200, NoBody,
                              { "connect", "write" })
           ELSE IF endpoint = "save-milestone"
           THEN IF ~ IsSafePath(task_id) \/ ~ IsSafePath(milestone_id)
                THEN /\ Reply(w, username, auth, 400, NoBody, { "connect" })
                     /\ UNCHANGED <<tasks, milestones>>
                ELSE IF OwnedTask(tasks, task_id, username) = {}
                THEN /\ Reply(w, username, auth, 403, NoBody,
                              { "connect", "read" })
                     /\ UNCHANGED <<tasks, milestones>>
                ELSE Continue(w, username, auth, "sm_insert", task_id,
                              milestone_id, parentId, { "connect", "read" })
           ELSE /\ Reply(w, username, auth, 404, NoBody, { "connect" })
                /\ UNCHANGED <<tasks, milestones>>
    /\ UNCHANGED <<storeVars, jwtVars>>

\* save-milestone: INSERT OR REPLACE INTO milestones, commit, 200
SaveMilestoneInsert(w) ==
    /\ req[w].pc = "sm_insert"
    /\ milestones' = InsertOrReplace(milestones,
                         [id |-> req[w].milestone_id, taskId |-> req[w].task_id,
                          parentId |-> req[w].parentId])
    /\ UNCHANGED tasks
    /\ Reply(w, req[w].username, req[w].auth, 200, NoBody,
             touched[w] \cup { "write" })
    /\ UNCHANGED <<storeVars, jwtVars, requests>>

\* do_DELETE up to and including its first SQL statement
DoDelete(w, header, endpoint, task_id, milestone_id) ==
    /\ Receive(w)
    /\ LET a == Authentication[header, now].returned
           username == a.username
           auth == Authentication[header, now].kind
       IN  IF username = NoStr
           THEN Return(w, auth, a.sent)
           ELSE IF endpoint \in { "delete-task", "delete-milestone" }
           THEN IF \/ ~ IsSafePath(task_id)
                   \/ endpoint = "delete-milestone" /\ ~ IsSafePath(milestone_id)
                THEN /\ Reply(w, username, auth, 400, NoBody, { "connect" })
                     /\ UNCHANGED <<tasks, milestones>>
                ELSE IF OwnedTask(tasks, task_id, username) = {}
                THEN /\ Reply(w, username, auth, 403, NoBody,
                              { "connect", "read" })
                     /\ UNCHANGED <<tasks, milestones>>
                ELSE Continue(w, username, auth,
                              IF endpoint = "delete-task"
                              THEN "dt_delete" ELSE "dm_parent",
                              task_id, milestone_id, NoStr,
                              { "connect", "read" })
           ELSE /\ Reply(w, username, auth, 404, NoBody, { "connect" })
                /\ UNCHANGED <<tasks, milestones>>
    /\ UNCHANGED <<storeVars, jwtVars>>

\* delete-task: DELETE FROM tasks WHERE id = ?, commit, 200
DeleteTaskDelete(w) ==
    /\ req[w].pc = "dt_delete"
    /\ tasks' = { r \in tasks : r.id # req[w].task_id }
    /\ milestones' = MilestonesAfterTaskDelete(milestones, req[w].task_id)
    /\ Reply(w, req[w].username, req[w].auth, 200, NoBody,
             touched[w] \cup { "write" })
    /\ UNCHANGED <<storeVars, jwtVars, requests>>

\* delete-milestone: SELECT id FROM milestones WHERE parentId = ?, and the
\* 409 when it finds a row
DeleteMilestoneParentCheck(w) ==
    /\ req[w].pc = "dm_parent"
    /\ IF Children(milestones, req[w].milestone_id) # {}
       THEN Reply(w, req[w].username, req[w].auth, 409, NoBody, touched[w])
       ELSE Continue(w, req[w].username, req[w].auth, "dm_delete",
                     req[w].task_id, req[w].milestone_id, NoStr, touched[w])
    /\ UNCHANGED <<tasks, milestones>>
    /\ UNCHANGED <<storeVars, jwtVars, requests>>

\* delete-milestone: DELETE FROM milestones WHERE id = ? AND taskId = ?,
\* commit, 200 when cursor.rowcount > 0 and 404 when not
DeleteMilestoneDelete(w) ==
    /\ req[w].pc = "dm_delete"
    /\ LET gone == { r \in milestones : /\ r.id = req[w].milestone_id
                                        /\ r.taskId = req[w].task_id }
       IN  /\ milestones' = milestones \ gone
           /\ Reply(w, req[w].username, req[w].auth,
                    IF gone # {} THEN 200 ELSE 404, NoBody,
                    touched[w] \cup { "write" })
    /\ UNCHANGED tasks
    /\ UNCHANGED <<storeVars, jwtVars, requests>>

-----------------------------------------------------------------------------
(* Specifications of the credential store                                  *)

\* After _init_auth_db(): an empty users table, no call running; no token
\* issued or presented yet.
Init ==
    /\ users = {}
    /\ nextId = 1
    /\ wlock = NoProc
    /\ pc = [p \in Procs |-> "idle"]
    /\ call = [p \in Procs |-> NoCall]
    /\ ret = [p \in Procs |-> NoRet]
    /\ calls = 0
    /\ cur = [u \in Usernames |-> NoCred]
    /\ regOK = [u \in Usernames |-> 0]
    /\ regDup = [u \in Usernames |-> 0]
    /\ delOK = [u \in Usernames |-> 0]
    /\ now = 0
    /\ issued = {}
    /\ res = NoRes
    /\ expiredSeen = {}
    /\ resp = [w \in Workers |-> <<>>]
    /\ tasks = {}
    /\ milestones = {}
    /\ req = [w \in Workers |-> IdleReq]
    /\ touched = [w \in Workers |-> {}]
    /\ requests = 0
    /\ actingUser = NoStr

StoreStep(p) ==
    \/ \E u \in Usernames, pw \in Passwords, s \in Salts : RegisterInsert(p, u, pw, s)
    \/ RegisterCommit(p)
    \/ \E u \in Usernames, old \in Passwords, new \in Passwords :
           ChangeSelect(p, u, old, new)
    \/ ChangeUpdate(p)
    \/ ChangeCommit(p)
    \/ \E u \in Usernames : DeleteExecute(p, u)
    \/ DeleteCommit(p)
    \/ \E u \in Usernames, pw \in Passwords : VerifyCall(p, u, pw)

\* Calls from several connections, interleaved at their SQL statements.
NextStore == (\E p \in Procs : StoreStep(p)) /\ UNCHANGED <<jwtVars, httpVars, apiVars>>

SpecStore == Init /\ [][NextStore]_vars

\* Calls made one after another, as the loop of main() makes them.
NextSeq ==
    /\ \E p \in Procs : (\A q \in Procs \ {p} : pc[q] = "idle") /\ StoreStep(p)
    /\ UNCHANGED <<jwtVars, httpVars, apiVars>>

SpecSeq == Init /\ [][NextSeq]_vars

\* Tokens are issued, time passes, and any of the presented strings is
\* verified at any instant.
NextJwt ==
    /\ \/ \E u \in Usernames : IssueToken(u)
       \/ AdvanceClock
       \/ \E token \in Presented : VerifyToken(token)
    /\ UNCHANGED <<storeVars, httpVars, apiVars>>

SpecJwt == Init /\ [][NextJwt]_vars

\* The calls user_manager makes between logins: a password may be empty.
\* The salt drawn does not matter to a login, so one value stands for it.
SessionStoreStep(p) ==
    \/ \E u \in Usernames, pw \in SubmittedPasswords :
           RegisterInsert(p, u, pw, CHOOSE s \in Salts : TRUE)
    \/ RegisterCommit(p)
    \/ \E u \in Usernames, old \in Passwords, new \in Passwords :
           ChangeSelect(p, u, old, new)
    \/ ChangeUpdate(p)
    \/ ChangeCommit(p)
    \/ \E u \in Usernames : DeleteExecute(p, u)
    \/ DeleteCommit(p)

\* Users are provisioned with user_manager from one terminal, log in over
\* HTTP, time passes, and the tokens the server issued are presented again.
\* A login is one read of the users table, so logins are taken one at a
\* time, between the statements of the user_manager calls.
NextSession ==
    \/ /\ SessionStoreStep(CHOOSE p \in Procs : TRUE)
       /\ UNCHANGED <<jwtVars, httpVars, apiVars>>
    \/ \E u \in SubmittedUsernames, pw \in SubmittedPasswords :
           DoPostLogin(CHOOSE w \in Workers : TRUE, u, pw)
    \/ AdvanceClock /\ UNCHANGED <<storeVars, httpVars, apiVars>>
    \/ (\E token \in IssuedTokens : VerifyToken(token))
          /\ UNCHANGED <<storeVars, httpVars, apiVars>>

SpecSession == Init /\ [][NextSession]_vars

\* first path segments that do_GET serves as data endpoints
DataEndpoints ==
    { "load-task", "load-milestones", "load-milestone", "load-tasks-summary",
      "login" }

\* do_GET up to and including its first SQL statement.  Any other first
\* path segment is a static file, served by the base class without
\* authentication; load-tasks-summary is taken without filter parameters.
DoGet(w, header, endpoint, task_id, milestone_id, static_status) ==
    /\ Receive(w)
    /\ LET a == Authentication[header, now].returned
           username == a.username
           auth == Authentication[header, now].kind
       IN  IF endpoint \notin DataEndpoints
           THEN /\ Reply(w, NoStr, "unprotected", static_status, NoBody, {})
                /\ UNCHANGED <<tasks, milestones>>
           ELSE IF username = NoStr
           THEN Return(w, auth, a.sent)
           ELSE IF endpoint = "load-tasks-summary"
           THEN /\ Reply(w, username, auth, 200,
                         [NoBody EXCEPT
                             !.rows = { r \in tasks : r.creator = username }],
                         { "connect", "read" })
                /\ UNCHANGED <<tasks, milestones>>
           ELSE IF endpoint = "login"
           THEN /\ Reply(w, username, auth, 404, NoBody, { "connect" })
                /\ UNCHANGED <<tasks, milestones>>
           ELSE IF \/ ~ IsSafePath(task_id)
                   \/ endpoint = "load-milestone" /\ ~ IsSafePath(milestone_id)
           THEN /\ Reply(w, username, auth, 400, NoBody, { "connect" })
                /\ UNCHANGED <<tasks, milestones>>
           ELSE IF OwnedTask(tasks, task_id, username) = {}
           THEN /\ Reply(w, username, auth, 404, NoBody, { "connect", "read" })
                /\ UNCHANGED <<tasks, milestones>>
           ELSE IF endpoint = "load-task"
           THEN /\ Reply(w, username, auth, 200,
                         [NoBody EXCEPT
                             !.rows = OwnedTask(tasks, task_id, username)],
                         { "connect", "read" })
                /\ UNCHANGED <<tasks, milestones>>
           ELSE Continue(w, username, auth,
                         IF endpoint = "load-milestones"
                         THEN "lm_select" ELSE "l1_select",
                         task_id, milestone_id, NoStr, { "connect", "read" })
    /\ UNCHANGED <<storeVars, jwtVars>>

\* load-milestones: SELECT * FROM milestones WHERE taskId = ?, 200
LoadMilestonesSelect(w) ==
    /\ req[w].pc = "lm_select"
    /\ Reply(w, req[w].username, req[w].auth, 200,
             [NoBody EXCEPT
                 !.rows = { r \in milestones : r.taskId = req[w].task_id }],
             touched[w])
    /\ UNCHANGED <<tasks, milestones>>
    /\ UNCHANGED <<storeVars, jwtVars, requests>>

\* load-milestone: SELECT * FROM milestones WHERE id = ? AND taskId = ?,
\* 200 with the row or 404
LoadMilestoneSelect(w) ==
    /\ req[w].pc = "l1_select"
    /\ LET found == { r \in milestones : /\ r.id = req[w].milestone_id
                                         /\ r.taskId = req[w].task_id }
       IN  Reply(w, req[w].username, req[w].auth,
                 IF found # {} THEN 200 ELSE 404,
                 [NoBody EXCEPT !.rows = found], touched[w])
    /\ UNCHANGED <<tasks, milestones>>
    /\ UNCHANGED <<storeVars, jwtVars, requests>>

\* a task id and a milestone id of which at least one is unsafe
UnsafePaths ==
    { ids \in PathTaskIds \X PathMilestoneIds :
        ids[1] = UnsafeId \/ ids[2] = UnsafeId }

\* Requests of the clients that logged in at instant 0, handled by the
\* threads of the server; the clock may pass the expiry of their tokens.
\* A request that carries no token of a login is answered before its path
\* is looked at, so one path stands for all of them.
NextApi ==
    \/ \E w \in Workers, h \in SessionHeaders, tid \in TaskIds, ti \in Titles :
           DoPut(w, h, "save-task", tid, NoStr, ti, NoStr)
    \/ \E w \in Workers, h \in SessionHeaders, tid \in TaskIds,
          mid \in MilestoneIds, par \in ParentIds :
           DoPut(w, h, "save-milestone", tid, mid, NoStr, par)
    \/ \E w \in Workers, h \in SessionHeaders, ids \in UnsafePaths,
          e \in { "save-task", "save-milestone", "other" } :
           DoPut(w, h, e, ids[1], ids[2], NoStr, NoStr)
    \/ \E w \in Workers, h \in OtherHeaders, tid \in TaskIds, ti \in Titles :
           DoPut(w, h, "save-task", tid, NoStr, ti, NoStr)
    \/ \E w \in Workers : SaveMilestoneInsert(w)
    \/ \E w \in Workers, h \in SessionHeaders, tid \in TaskIds :
           DoDelete(w, h, "delete-task", tid, NoStr)
    \/ \E w \in Workers, h \in SessionHeaders, tid \in TaskIds,
          mid \in MilestoneIds :
           DoDelete(w, h, "delete-milestone", tid, mid)
    \/ \E w \in Workers, h \in SessionHeaders, ids \in UnsafePaths,
          e \in { "delete-task", "delete-milestone", "other" } :
           DoDelete(w, h, e, ids[1], ids[2])
    \/ \E w \in Workers, h \in OtherHeaders, tid \in TaskIds :
           DoDelete(w, h, "delete-task", tid, NoStr)
    \/ \E w \in Workers : DeleteTaskDelete(w)
    \/ \E w \in Workers : DeleteMilestoneParentCheck(w)
    \/ \E w \in Workers : DeleteMilestoneDelete(w)
    \/ \E w \in Workers, h \in SessionHeaders,
          e \in { "load-tasks-summary", "login" } :
           DoGet(w, h, e, NoStr, NoStr, 200)
    \/ \E w \in Workers, h \in SessionHeaders, tid \in TaskIds,
          e \in { "load-task", "load-milestones" } :
           DoGet(w, h, e, tid, NoStr, 200)
    \/ \E w \in Workers, h \in SessionHeaders, tid \in TaskIds,
          mid \in MilestoneIds :
           DoGet(w, h, "load-milestone", tid, mid, 200)
    \/ \E w \in Workers, h \in SessionHeaders, ids \in UnsafePaths,
          e \in { "load-task", "load-milestones", "load-milestone" } :
           DoGet(w, h, e, ids[1], ids[2], 200)
    \/ \E w \in Workers, h \in OtherHeaders, tid \in TaskIds :
           DoGet(w, h, "load-task", tid, NoStr, 200)
    \/ \E w \in Workers, st \in { 200, 404 } :
           DoGet(w, NoHeader, "index.html", NoStr, NoStr, st)
    \/ \E w \in Workers : LoadMilestonesSelect(w)
    \/ \E w \in Workers : LoadMilestoneSelect(w)
    \/ /\ AdvanceClock
       /\ now' > TOKEN_TTL
       /\ UNCHANGED <<storeVars, httpVars, apiVars>>

SpecApi == Init /\ [][NextApi]_vars

-----------------------------------------------------------------------------
(* Properties of the credential store                                      *)

\* C1: a verify_user(u, pw) call made while the last committed write to u is
\* a register_user(u, pw) (no change_password or delete_user of u since)
\* returns true.
C1_RegisterThenVerify ==
    [][\A p \in Procs, u \in Usernames, pw \in Passwords :
          (VerifyCall(p, u, pw) /\ cur[u].via = "register" /\ cur[u].password = pw)
              => (ret'[p].value = TRUE)]_vars

\* register_user then verify_user with the same pair, and nothing else.
C1_Witness ==
    \E p \in Procs :
        /\ calls = 2
        /\ ret[p].op = "verify_user"
        /\ ret[p].value = TRUE
        /\ cur[ret[p].username].via = "register"

\* C2: a verify_user(u, pw) call returns false when u has no record and when
\* u has one but pw is not its current password, and takes the same exit
\* with the same value in both cases.
C2_VerifyFailsAlike ==
    [][\A p \in Procs, u \in Usernames, pw \in Passwords :
          (VerifyCall(p, u, pw)
              /\ (RowsOf(users, u) = {} \/ cur[u].password # pw))
              => (ret'[p] = Returned("verify_user", u, FALSE, "failed"))]_vars

\* One call failed for a name never registered, another for a registered
\* name with a wrong password, and both returned the same.
C2_Witness ==
    \E p \in Procs, q \in Procs :
        /\ ret[p].op = "verify_user" /\ ret[q].op = "verify_user"
        /\ regOK[ret[p].username] = 0
        /\ RowsOf(users, ret[q].username) # {}
        /\ ret[p].value = FALSE /\ ret[q].value = FALSE
        /\ ret[p].kind = ret[q].kind

RegInFlight(u) ==
    IF \E p \in Procs : pc[p] = "reg_commit" /\ call[p].username = u THEN 1 ELSE 0

\* C3: the table never holds two records for one username; every committed
\* registration is matched by the record or by a later removal; and among
\* the register_user calls for a username that was never deleted, at most
\* one passes its INSERT, and every other one gets IntegrityError only once
\* that one has committed.
C3_OneRegistrationWins ==
    \A u \in Usernames :
        /\ Cardinality(RowsOf(users, u)) <= 1
        /\ regOK[u] = delOK[u] + Cardinality(RowsOf(users, u))
        /\ (delOK[u] = 0) =>
              /\ regOK[u] + RegInFlight(u) <= 1
              /\ (regDup[u] > 0 => regOK[u] = 1)

\* Two connections registered the same name: one returned True, the other
\* False through IntegrityError.
C3_Witness ==
    \E p \in Procs, q \in Procs :
        /\ p # q
        /\ ret[p] = Returned("register_user", ret[q].username, TRUE, "ok")
        /\ ret[q].op = "register_user" /\ ret[q].kind = "IntegrityError"
        /\ delOK[ret[q].username] = 0

\* C4: a change_password call for an existing user whose old_password does
\* not verify returns False through the old-password mismatch exit and
\* leaves the whole users table as it was.
C4_WrongOldPasswordChangesNothing ==
    [][\A p \in Procs, u \in Usernames, old \in Passwords, new \in Passwords :
          (ChangeSelect(p, u, old, new)
              /\ FetchOne(users, u) # {}
              /\ ~ VerifyUser(users, u, old).value)
              => /\ ret'[p] = Returned("change_password", u, FALSE, "InvalidCredentials")
                 /\ pc'[p] = "idle"
                 /\ users' = users]_vars

C4_Witness ==
    \E p \in Procs :
        /\ ret[p].op = "change_password"
        /\ ret[p].kind = "InvalidCredentials"
        /\ RowsOf(users, ret[p].username) # {}

\* C5 as stated: after a successful change_password(u, old, new), for all
\* old and new, verify_user(u, old) is false and verify_user(u, new) is true.
C5_Original ==
    \A u \in Usernames :
        (cur[u].via = "change")
            => /\ ~ VerifyUser(users, u, cur[u].old_password).value
               /\ VerifyUser(users, u, cur[u].password).value

\* C5 amended: after a successful change_password(u, old, new), made while
\* no other call is running, verify_user(u, new) is true, and
\* verify_user(u, old) is false exactly when new differs from old.
C5_ChangeThenVerify ==
    \A u \in Usernames :
        (cur[u].via = "change")
            => /\ VerifyUser(users, u, cur[u].password).value
               /\ (cur[u].old_password # cur[u].password
                     <=> ~ VerifyUser(users, u, cur[u].old_password).value)

C5_Witness ==
    \E u \in Usernames :
        /\ cur[u].via = "change"
        /\ cur[u].old_password # cur[u].password
        /\ RowsOf(users, u) # {}

-----------------------------------------------------------------------------
(* Properties of the token codec                                           *)

Verified == res.path # "none"

ThreeNonEmpty(token) ==
    LET parts == Split(token, ".")
    IN  Len(parts) = 3 /\ \A i \in 1 .. 3 : parts[i] # <<>>

\* the third segment is the server's signature of the first two
SignatureValid(token) ==
    LET parts == Split(token, ".")
    IN  /\ Len(parts) = 3
        /\ parts[3] = Sign(SECRET_KEY, parts[1] \o << "." >> \o parts[2])

\* the payload segment holds an exp
HasExp(token) ==
    LET parts == Split(token, ".")
    IN  /\ Len(parts) = 3
        /\ DecodePayload(parts[2]).ok
        /\ DecodePayload(parts[2]).payload.has_exp

ExpOf(token) == DecodePayload(Split(token, ".")[2]).payload.exp

UsernameOf(token) == DecodePayload(Split(token, ".")[2]).payload.username

IsPrefix(s, t) == Len(s) <= Len(t) /\ \A i \in 1 .. Len(s) : s[i] = t[i]

VerificationOrder == << "split", "signature", "decode", "exp" >>

\* C6: verifying an issued token with the server's key at an instant before
\* its exp returns exactly the payload it was issued for.
C6_RoundTrip ==
    \A p \in issued :
        (res.token = GenerateJwt(p, SECRET_KEY) /\ res.at < p.exp)
            => (res.ok /\ res.payload = p)

\* An issued token verified one second before it expires.
C6_Witness ==
    \E p \in issued :
        /\ res.token = GenerateJwt(p, SECRET_KEY)
        /\ res.at = p.exp - 1
        /\ res.ok
        /\ res.payload = p

\* C7: a token that differs from an issued token in one byte of its header,
\* payload or signature segment never verifies: _verify_jwt returns None
\* through the format check or the signature check.
C7_TamperDetected ==
    \A p \in issued :
        (Verified /\ res.token \in TamperedOf(GenerateJwt(p, SECRET_KEY)))
            => (~ res.ok /\ res.path \in { "format", "signature" })

\* The payload of an issued token rewritten to name another user.
C7_Witness ==
    \E p \in issued :
        /\ res.token \in TamperedOf(GenerateJwt(p, SECRET_KEY))
        /\ HasExp(res.token)
        /\ UsernameOf(res.token) # p.username
        /\ res.path = "signature"

\* C8 as stated, for the tokens the server issued: the token is accepted
\* only at instants strictly before its exp, is rejected as expired at every
\* instant at or after exp, and is never accepted once it was rejected as
\* expired.
C8_Original ==
    \A p \in issued :
        (Verified /\ res.token = GenerateJwt(p, SECRET_KEY))
            => /\ res.ok => res.at < p.exp
               /\ res.at >= p.exp => (~ res.ok /\ res.path = "expired")
               /\ res.ok => res.token \notin expiredSeen

\* C9 as stated: a token whose exp is in the past fails as expired, whether
\* its signature is valid or not.
C9_Original ==
    (Verified /\ HasExp(res.token) /\ ExpOf(res.token) < res.at)
        => (~ res.ok /\ res.path = "expired")

\* C9 amended: a token whose exp is in the past always fails: as expired
\* when its signature is valid, at the signature check when it is not.
C9_PastExpAlwaysFails ==
    (Verified /\ HasExp(res.token) /\ ExpOf(res.token) < res.at)
        => /\ ~ res.ok
           /\ SignatureValid(res.token) => res.path = "expired"
           /\ ~ SignatureValid(res.token) => res.path = "signature"

\* A token with a past exp and a signature that is not the server's.
C9_Witness ==
    /\ Verified
    /\ HasExp(res.token)
    /\ ExpOf(res.token) < res.at
    /\ ~ SignatureValid(res.token)
    /\ res.path = "signature"

\* C10 as stated: the steps run in the fixed order and stop at the first
\* failure; a token without exactly three non-empty segments fails as
\* malformed; the payload is decoded only after the signature matched.
C10_Original ==
    Verified
        => /\ IsPrefix(res.steps, VerificationOrder)
           /\ ~ ThreeNonEmpty(res.token)
                 => (~ res.ok /\ res.path \in { "format", "error" })
           /\ (\E i \in 1 .. Len(res.steps) : res.steps[i] = "decode")
                 => SignatureValid(res.token)

-----------------------------------------------------------------------------
(* Properties of the credential store: failure kinds, delete, races        *)

\* C11 as stated, for the credential store: two calls of one operation
\* (other than verify_user) that ended in different kinds of outcome
\* returned different values.
C11_Original ==
    \A p \in Procs, q \in Procs :
        (/\ ret[p].op = ret[q].op
         /\ ret[p].op \notin { "none", "verify_user" }
         /\ ret[p].kind # ret[q].kind)
            => ret[p].value # ret[q].value

\* C15: the commit of delete_user(u) returns True exactly when a record for
\* u was stored; when it returns False the table is as it was; when it
\* returns True no password verifies for u any more, the records of the
\* other users are as they were, and an INSERT for u passes the UNIQUE
\* check again.
C15_DeleteRemovesRecord ==
    [][\A p \in Procs :
          DeleteCommit(p) =>
              LET u == call[p].username
              IN  /\ ret'[p].op = "delete_user"
                  /\ ret'[p].value = (RowsOf(users, u) # {})
                  /\ ~ ret'[p].value => users' = users
                  /\ ret'[p].value =>
                        /\ \A pw \in Passwords : ~ VerifyUser(users', u, pw).value
                        /\ users' = { r \in users : r.username # u }
                        /\ ~ UniqueViolation(users', u)]_vars

\* A user was registered, deleted with True returned, and registered again.
C15_Witness ==
    \E p \in Procs, u \in Usernames :
        /\ ret[p] = Returned("delete_user", u, TRUE, "ok")
        /\ delOK[u] = 1
        /\ regOK[u] = 2
        /\ RowsOf(users, u) # {}

\* C20 as stated: when a change_password call commits and reports success,
\* the table then holds a record for its user whose digest is the hash of
\* the call's new password, and the digest the call verified old_password
\* against was still the stored one when it wrote.
C20_Original ==
    [][\A p \in Procs :
          ChangeCommit(p) =>
              LET u == call[p].username
              IN  /\ \E r \in users' :
                        /\ r.username = u
                        /\ r.password_hash = HashPassword(call[p].password, r.salt)
                  /\ \E r \in users :
                        /\ r.username = u
                        /\ r.password_hash =
                              HashPassword(call[p].old_password, r.salt)]_vars

-----------------------------------------------------------------------------
(* Properties of sessions                                                  *)

\* the payload do_POST builds for username at the instant t
LoginPayload(username, t) ==
    [username |-> username, has_exp |-> TRUE, exp |-> t + TOKEN_TTL]

\* the 200 response of a login
LoginOK(username, t) ==
    Response(200, [NoBody EXCEPT
                      !.token = GenerateJwt(LoginPayload(username, t), SECRET_KEY),
                      !.username = username])

\* C12: whatever user_manager has done to the users table since a token was
\* issued, _verify_jwt accepts the token at every instant before its exp and
\* returns the username it was issued for, and it rejects an issued token
\* only as expired.
C12_NoRevocation ==
    \A p \in issued :
        (Verified /\ res.token = GenerateJwt(p, SECRET_KEY))
            => /\ res.at < p.exp => (res.ok /\ res.payload.username = p.username)
               /\ ~ res.ok => res.path = "expired"

\* A token is accepted after the record of the user it names was deleted.
C12_Witness ==
    \E p \in issued :
        /\ res.token = GenerateJwt(p, SECRET_KEY)
        /\ res.ok
        /\ res.payload.username = p.username
        /\ delOK[p.username] > 0
        /\ RowsOf(users, p.username) = {}

\* C14 as stated: a login answers 200 with {token, username}, the token
\* naming the submitted username with exp = now + 3600, exactly when
\* verify_user succeeds for the submitted credentials, and answers with a
\* failure and issues nothing otherwise.
C14_Original ==
    [][\A u \in SubmittedUsernames, pw \in SubmittedPasswords, w \in Workers :
          DoPostLogin(w, u, pw) =>
              IF VerifyUser(users, u, pw).value
              THEN /\ resp'[w] = << LoginOK(u, now) >>
                   /\ issued' = issued \cup { LoginPayload(u, now) }
              ELSE /\ resp'[w][1].status \in { 400, 401 }
                   /\ resp'[w][1].body = NoBody
                   /\ issued' = issued]_vars

\* C14 amended: a login with a non-empty username and password answers 200
\* with {token, username} exactly when verify_user succeeds, and 401
\* otherwise; a login with an empty username or password is answered 400
\* whatever the store holds; a token is issued only with a 200, for the
\* username just verified, with exp = now + 3600.
C14_LoginIssuesOnlyVerified ==
    [][\A u \in SubmittedUsernames, pw \in SubmittedPasswords, w \in Workers :
          DoPostLogin(w, u, pw) =>
              /\ Len(resp'[w]) = 1
              /\ IF u = NoStr \/ pw = NoStr
                 THEN resp'[w] = << Response(400, NoBody) >>
                 ELSE IF VerifyUser(users, u, pw).value
                 THEN resp'[w] = << LoginOK(u, now) >>
                 ELSE resp'[w] = << Response(401, NoBody) >>
              /\ issued' = IF resp'[w][1].status = 200
                           THEN issued \cup { LoginPayload(u, now) }
                           ELSE issued
              /\ resp'[w][1].status = 200 => VerifyUser(users, u, pw).value]_vars

\* A login was answered with a token that the server has issued.
C14_Witness ==
    \E w \in Workers :
        /\ Len(resp[w]) = 1
        /\ resp[w][1].status = 200
        /\ resp[w][1].body.token \in IssuedTokens
        /\ \E p \in issued : p.username = resp[w][1].body.username

-----------------------------------------------------------------------------
(* Properties of the request handlers                                      *)

\* the cases in which a protected request is not authenticated
NotAuthenticated == { "missing", "not_bearer", "rejected" }

\* C13: a protected request whose Authorization header is missing, is not
\* a Bearer header or carries a token that _verify_jwt rejects has ended in
\* the step that received it, without connecting to tasks.db, reading it or
\* writing it.
C13_RejectedBeforeStore ==
    \A w \in Workers :
        (req[w].auth \in NotAuthenticated)
            => (req[w].pc = "done" /\ touched[w] = {})

\* A request with a token signed by another key was turned away while the
\* store held a task.
C13_Witness ==
    \E w \in Workers :
        /\ req[w].auth = "rejected"
        /\ req[w].pc = "done"
        /\ touched[w] = {}
        /\ tasks # {}

\* C16 as stated: when a handler has returned, exactly one response was
\* sent for the request, and it is a 401 when the request was not
\* authenticated.
C16_Original ==
    \A w \in Workers :
        (req[w].pc = "done")
            => /\ Len(resp[w]) = 1
               /\ req[w].auth \in NotAuthenticated => resp[w][1].status = 401

\* C17 as stated: every stored milestone's taskId names a stored task.
C17_Original ==
    \A m \in milestones : \E t \in tasks : t.id = m.taskId

\* C18 as stated: the parent check of delete-milestone answers 409 and
\* leaves the table alone when another milestone names the milestone as its
\* parent, and the DELETE of delete-milestone never removes a milestone that
\* a milestone left in the table names as its parent.
C18_Original ==
    [][\A w \in Workers :
          /\ (DeleteMilestoneParentCheck(w)
                 /\ Children(milestones, req[w].milestone_id) # {})
                => (resp'[w] = << Response(409, NoBody) >>
                       /\ milestones' = milestones)
          /\ DeleteMilestoneDelete(w)
                => \A m \in milestones \ milestones' :
                       Children(milestones', m.id) = {}]_vars

\* C19 as stated: a handler step that acts for one user leaves every task
\* created by another user, and every milestone attached to such a task, in
\* the tables as it was.
C19_Original ==
    [][\A t \in tasks :
          (actingUser' # NoStr /\ t.creator # actingUser')
              => /\ t \in tasks'
                 /\ \A m \in milestones : m.taskId = t.id => m \in milestones']_vars

=============================================================================
